---------------------------- MODULE Spec2Model ----------------------------
(***************************************************************************)
(* StaticDex: the release table page.                                      *)
(*                                                                         *)
(* The page imports data/releases.json (a list of title entries, each with *)
(* a list of best and a list of alt releases), flattens it to display rows *)
(* with flattenToRows, and renders one table row per display row; release  *)
(* cells are coloured by getStatusStyle, the comparison cell is built by   *)
(* renderComparison, and the themed page keeps a light/dark preference in  *)
(* localStorage.                                                           *)
(*                                                                         *)
(* Conventions.  A JavaScript string that the code only copies or compares *)
(* is a TLA+ string; a string the code scans (the comparison field) is a   *)
(* sequence of one-character strings.  A nullable value is a sequence of   *)
(* length 0 (null) or 1 (the value).  Array indices are 0-based as in the  *)
(* source; element i of an array a is a[i + 1].                            *)
(***************************************************************************)
EXTENDS Integers, Sequences, FiniteSets, TLC

VARIABLES
    data,       \* the imported releases.json: a sequence of ReleaseEntry
    rows,       \* what the last call of flattenToRows returned
    prevRows,   \* what the call before the last returned
    calls,      \* calls that have returned: 0, 1, or 2 for two and more
    tbody,      \* the table body of the last render: a sequence of <tr>
    comparison, \* the argument of renderComparison: null or a string
    status,     \* the argument of getStatusStyle
    rendered,   \* what renderComparison returned (null before the call)
    style,      \* what getStatusStyle returned (null before the call)
    storage,    \* localStorage's "theme" item: null or a string
    theme,      \* the component's theme state
    mounted,    \* the component's mounted state
    view,       \* what the themed page shows: null (nothing) or the theme drawn
    toggles,    \* toggleTheme calls since the page was loaded
    loads       \* page loads so far

flattenVars == <<data, rows, prevRows, calls, tbody>>
cellVars    == <<comparison, status, rendered, style>>
themeVars   == <<storage, theme, mounted, view, toggles, loads>>
vars        == <<flattenVars, cellVars, themeVars>>

----------------------------------------------------------------------------
(* Bounds of the model. *)

MaxEntries  == 2    \* entries in releases.json
MaxReleases == 2    \* releases in one best_releases or alt_releases list
MaxLines    == 2    \* newline-separated pieces of a comparison string
MaxToggles  == 4    \* toggleTheme calls in one page load
MaxLoads    == 3    \* page loads

----------------------------------------------------------------------------
(* Values. *)

Null == <<>>

Some(v) == <<v>>

Max(a, b) == IF a >= b THEN a ELSE b

\* ReleaseEntry without its two release lists: a title seen twice with
\* different details, and the empty title.
Metas ==
    << [title |-> "A", alt_title |-> "Alpha", year |-> Some(2020),
        format |-> Some("TV"), notes |-> "n1", comparison |-> "c1"],
       [title |-> "A", alt_title |-> "", year |-> Null,
        format |-> Null, notes |-> "", comparison |-> ""],
       [title |-> "", alt_title |-> "Beta", year |-> Some(1999),
        format |-> Some("MOVIE"), notes |-> "n3", comparison |-> "c3"] >>

NameCycle == <<"G1", "G2", "", "G3", "G4">>

StatusCycle == <<"broken", "", "incomplete", "unmuxed", "ok", "not_nyaa">>

\* The release at 1-based position p of the list kept for meta m, side s
\* (0: best, 1: alt).  Names and statuses cycle, so every status and the
\* all-empty release {name: "", status: ""} occur in some list.
PoolRelease(m, s, p) ==
    [name   |-> NameCycle[((p + m + 2 * s) % Len(NameCycle)) + 1],
     status |-> StatusCycle[((p + 2 * m + 3 * s) % Len(StatusCycle)) + 1]]

ReleaseList(m, s, n) == [p \in 1..n |-> PoolRelease(m, s, p)]

Entry(m, nb, na) ==
    [title         |-> Metas[m].title,
     alt_title     |-> Metas[m].alt_title,
     year          |-> Metas[m].year,
     format        |-> Metas[m].format,
     notes         |-> Metas[m].notes,
     comparison    |-> Metas[m].comparison,
     best_releases |-> ReleaseList(m, 0, nb),
     alt_releases  |-> ReleaseList(m, 1, na)]

Entries ==
    { Entry(m, nb, na) : m \in 1..Len(Metas), nb \in 0..MaxReleases,
                         na \in 0..MaxReleases }

DataSets == UNION { [1..n -> Entries] : n \in 0..MaxEntries }

----------------------------------------------------------------------------
(* flattenToRows, first pass: one block of rows per entry. *)

\* The maximum without the || 1 defaults.
maxLenNoDefault(entry) ==
    Max(Len(entry.best_releases), Len(entry.alt_releases))

\* Math.max(entry.best_releases.length || 1, entry.alt_releases.length || 1)
maxLen(entry) ==
    Max(IF Len(entry.best_releases) # 0 THEN Len(entry.best_releases) ELSE 1,
        IF Len(entry.alt_releases) # 0 THEN Len(entry.alt_releases) ELSE 1)

\* A missing release replaced by the list's last one.
releaseAtClamped(list, i) ==
    IF i < Len(list) THEN list[i + 1]
    ELSE IF Len(list) > 0 THEN list[Len(list)]
    ELSE [name |-> "", status |-> ""]

\* list[i] ?? { name: "", status: "" }
releaseAt(list, i) ==
    IF i < Len(list) THEN list[i + 1] ELSE [name |-> "", status |-> ""]

\* The object pushed for iteration i of the inner loop.
newRow(entry, i) ==
    LET best == releaseAt(entry.best_releases, i)
        alt  == releaseAt(entry.alt_releases, i)
    IN  [title           |-> entry.title,
         alt_title       |-> entry.alt_title,
         year            |-> entry.year,
         format          |-> entry.format,
         notes           |-> entry.notes,
         comparison      |-> entry.comparison,
         best_name       |-> best.name,
         best_status     |-> best.status,
         alt_name        |-> alt.name,
         alt_status      |-> alt.status,
         isFirstForTitle |-> (i = 0),
         rowSpan         |-> 0]

\* for (let i = 0; i < maxLen; i++) rows.push(...)
entryRows(entry) == [p \in 1..maxLen(entry) |-> newRow(entry, p - 1)]

RECURSIVE pushFrom(_, _, _)
pushFrom(d, k, acc) ==
    IF k > Len(d) THEN acc ELSE pushFrom(d, k + 1, acc \o entryRows(d[k]))

\* The blocks put in front of the rows instead of behind them.
RECURSIVE unshiftFrom(_, _, _)
unshiftFrom(d, k, acc) ==
    IF k > Len(d) THEN acc ELSE unshiftFrom(d, k + 1, entryRows(d[k]) \o acc)

firstPassReversed(d) == unshiftFrom(d, 1, <<>>)

\* data.forEach((entry) => { ... })
firstPass(d) == pushFrom(d, 1, <<>>)


----------------------------------------------------------------------------
(* flattenToRows, second pass: the row spans. *)

\* The group closed without clearing isFirstForTitle on its later rows.
closeGroupKeepingFirst(rs, groupStart, groupEnd) ==
    [p \in 1..Len(rs) |->
        IF p = groupStart + 1
        THEN [rs[p] EXCEPT !.rowSpan = groupEnd - groupStart]
        ELSE IF p > groupStart + 1 /\ p < groupEnd + 1
        THEN [rs[p] EXCEPT !.rowSpan = 0]
        ELSE rs[p]]

\* rows[groupStart].rowSpan = span; the rows after it in the group get
\* rowSpan = 0 and isFirstForTitle = false.
closeGroup(rs, groupStart, groupEnd) ==
    [p \in 1..Len(rs) |->
        IF p = groupStart + 1
        THEN [rs[p] EXCEPT !.rowSpan = groupEnd - groupStart]
        ELSE IF p > groupStart + 1 /\ p < groupEnd + 1
        THEN [rs[p] EXCEPT !.rowSpan = 0, !.isFirstForTitle = FALSE]
        ELSE rs[p]]

\* The loop stopping at i < rows.length: the last group is never closed.
loopLimitExclusive(rs) == Len(rs) - 1

\* The last value of i for which the loop body runs: i <= rows.length.
loopLimit(rs) == Len(rs)

\* The loop body testing currentTitle for truthiness instead of !== null:
\* a group whose title is the empty string is never closed.
spanStepTruthy(st) ==
    LET rs       == st.rows
        i        == st.i
        hasRow   == i < Len(rs)
        rowTitle == IF hasRow THEN Some(rs[i + 1].title) ELSE Null
        titleChanged == ~hasRow \/ rowTitle # st.currentTitle
    IN  IF i = 0
        THEN [st EXCEPT !.currentTitle = rowTitle, !.groupStart = 0, !.i = 1]
        ELSE IF titleChanged /\ st.currentTitle # Null /\ st.currentTitle # Some("")
        THEN [rows |-> IF i - st.groupStart > 0
                       THEN closeGroup(rs, st.groupStart, i)
                       ELSE rs,
              i |-> i + 1,
              currentTitle |-> IF hasRow THEN rowTitle ELSE st.currentTitle,
              groupStart   |-> IF hasRow THEN i ELSE st.groupStart]
        ELSE [st EXCEPT !.i = i + 1]

\* One run of the loop body at index st.i (the i++ included).
\* st = [rows, i, currentTitle, groupStart]; currentTitle is Null or Some(t).
spanStep(st) ==
    LET rs       == st.rows
        i        == st.i
        hasRow   == i < Len(rs)                  \* rows[i] is not undefined
        rowTitle == IF hasRow THEN Some(rs[i + 1].title) ELSE Null
        titleChanged == ~hasRow \/ rowTitle # st.currentTitle
    IN  IF i = 0
        THEN [st EXCEPT !.currentTitle = rowTitle, !.groupStart = 0, !.i = 1]
        ELSE IF titleChanged /\ st.currentTitle # Null
        THEN [rows |-> IF i - st.groupStart > 0
                       THEN closeGroup(rs, st.groupStart, i)
                       ELSE rs,
              i |-> i + 1,
              currentTitle |-> IF hasRow THEN rowTitle ELSE st.currentTitle,
              groupStart   |-> IF hasRow THEN i ELSE st.groupStart]
        ELSE [st EXCEPT !.i = i + 1]

RECURSIVE spanLoop(_)
spanLoop(st) ==
    IF st.i > loopLimit(st.rows) THEN st.rows ELSE spanLoop(spanStep(st))

\* let currentTitle = null; let groupStart = 0; for (let i = 0; ...)
secondPass(rs) ==
    spanLoop([rows |-> rs, i |-> 0, currentTitle |-> Null, groupStart |-> 0])

flattenToRows(d) == secondPass(firstPass(d))

----------------------------------------------------------------------------
(* getStatusStyle: the style object of a release cell.  {} is the empty   *)
(* function, written <<>>.                                                 *)

EmptyStyle == <<>>

StatusInputs ==
    {"broken", "incomplete", "unmuxed", "not_nyaa", "", "ok", "Broken",
     "not-nyaa"}

\* The lookup with the default falling through to the first case.
getStatusStyleDefaultGray(s) ==
    CASE s = "broken"     -> [backgroundColor |-> "#CBCBCB", color |-> "#020617"]
      [] s = "incomplete" -> [backgroundColor |-> "#D37ABC", color |-> "#020617"]
      [] s = "unmuxed"    -> [backgroundColor |-> "#FFE89A", color |-> "#020617"]
      [] s = "not_nyaa"   -> [backgroundColor |-> "#639AFF", color |-> "#020617"]
      [] OTHER            -> [backgroundColor |-> "#CBCBCB", color |-> "#020617"]

\* switch (status) { case ...: return {...}; default: return {}; }
getStatusStyle(s) ==
    CASE s = "broken"     -> [backgroundColor |-> "#CBCBCB", color |-> "#020617"]
      [] s = "incomplete" -> [backgroundColor |-> "#D37ABC", color |-> "#020617"]
      [] s = "unmuxed"    -> [backgroundColor |-> "#FFE89A", color |-> "#020617"]
      [] s = "not_nyaa"   -> [backgroundColor |-> "#639AFF", color |-> "#020617"]
      [] OTHER            -> EmptyStyle

----------------------------------------------------------------------------
(* The table body: one <tr> per row, a sequence of <td>.  A <td> is        *)
(* [col, rowSpan, text, badges, style]; a <td> without a rowSpan attribute *)
(* spans one row; style is Null for style={undefined}.                     *)

\* formatMap[format] || format, and '' for no format.
formatMediaType(format) ==
    IF format = Null THEN ""
    ELSE CASE format[1] = "TV"       -> "TV"
           [] format[1] = "MOVIE"    -> "Movie"
           [] format[1] = "OVA"      -> "OVA"
           [] format[1] = "SPECIAL"  -> "Special"
           [] format[1] = "ONA"      -> "ONA"
           [] format[1] = "TV_SHORT" -> "TV Short"
           [] OTHER                  -> format[1]

\* value || dash; "--" stands for the page's em dash (U+2014).
orDash(text) == IF text = "" THEN "--" ELSE text

\* A merged cell that leaves the rowSpan attribute out.
mergedCellNoSpan(col, row, text, badges) ==
    [col |-> col, rowSpan |-> 1, text |-> text, badges |-> badges,
     style |-> Null]

\* <td rowSpan={row.rowSpan} ...>
mergedCell(col, row, text, badges) ==
    [col |-> col, rowSpan |-> row.rowSpan, text |-> text, badges |-> badges,
     style |-> Null]

\* <td style={status ? getStatusStyle(status) : undefined}>{name || dash}</td>
releaseCell(col, name, st) ==
    [col |-> col, rowSpan |-> 1, text |-> orDash(name), badges |-> <<>>,
     style |-> IF st # "" THEN Some(getStatusStyle(st)) ELSE Null]

\* {row.year ? ... : ''} {row.format ? ...formatMediaType(row.format)... : ''}
titleBadges(row) ==
    (IF row.year # Null /\ row.year # Some(0) THEN <<row.year[1]>> ELSE <<>>)
    \o (IF row.format # Null /\ row.format # Some("")
        THEN <<formatMediaType(row.format)>> ELSE <<>>)

\* row.isFirstForTitle && row.rowSpan > 0
showsMerged(row) == row.isFirstForTitle /\ row.rowSpan > 0

\* The <tr> of one row.  The comparison cell holds the field that
\* renderComparison is called on.
tableRow(row) ==
    (IF showsMerged(row)
     THEN << mergedCell("title", row, row.title, titleBadges(row)),
             mergedCell("alt_title", row, orDash(row.alt_title), <<>>) >>
     ELSE <<>>)
    \o << releaseCell("best", row.best_name, row.best_status),
          releaseCell("alt", row.alt_name, row.alt_status) >>
    \o (IF showsMerged(row)
        THEN << mergedCell("comparison", row, row.comparison, <<>>),
                mergedCell("notes", row, orDash(row.notes), <<>>) >>
        ELSE <<>>)

\* {rows.map((row, idx) => ( <tr ...> ... </tr> ))}
tableBody(rs) == [p \in 1..Len(rs) |-> tableRow(rs[p])]

----------------------------------------------------------------------------
(* The page: every render calls flattenToRows on the imported data. *)

FlattenIdle ==
    /\ data = <<>>
    /\ rows = <<>>
    /\ prevRows = <<>>
    /\ calls = 0
    /\ tbody = <<>>

InitFlatten ==
    /\ data \in DataSets
    /\ rows = <<>>
    /\ prevRows = <<>>
    /\ calls = 0
    /\ tbody = <<>>

\* A render whose flattening consumes the input lists (shift() instead of
\* indexing): the imported data is left without releases.
RenderConsuming ==
    /\ rows' = flattenToRows(data)
    /\ prevRows' = rows
    /\ calls' = IF calls < 2 THEN calls + 1 ELSE calls
    /\ tbody' = tableBody(rows')
    /\ data' = [k \in 1..Len(data) |->
                  [data[k] EXCEPT !.best_releases = <<>>, !.alt_releases = <<>>]]
    /\ UNCHANGED <<cellVars, themeVars>>

\* const entries = releases; const rows = flattenToRows(entries);
\* return ( ... <tbody>{rows.map(...)}</tbody> ... );
Render ==
    /\ rows' = flattenToRows(data)
    /\ prevRows' = rows
    /\ calls' = IF calls < 2 THEN calls + 1 ELSE calls
    /\ tbody' = tableBody(rows')
    /\ data' = data
    /\ UNCHANGED <<cellVars, themeVars>>


----------------------------------------------------------------------------
(* renderComparison: the lines of a comparison cell.  A string is a        *)
(* sequence of one-character strings.                                      *)

\* The characters String.prototype.trim removes, as far as the inputs go.
WhiteSpace == {" ", "\t", "\n", "\r"}

RECURSIVE trimStart(_)
trimStart(s) ==
    IF s # <<>> /\ Head(s) \in WhiteSpace THEN trimStart(Tail(s)) ELSE s

RECURSIVE trimEnd(_)
trimEnd(s) ==
    IF s # <<>> /\ s[Len(s)] \in WhiteSpace
    THEN trimEnd(SubSeq(s, 1, Len(s) - 1))
    ELSE s

trim(s) == trimEnd(trimStart(s))

\* s.split("\n"): the pieces between the newlines, at least one.
RECURSIVE splitFrom(_, _, _)
splitFrom(s, cur, acc) ==
    IF s = <<>> THEN Append(acc, cur)
    ELSE IF Head(s) = "\n" THEN splitFrom(Tail(s), <<>>, Append(acc, cur))
    ELSE splitFrom(Tail(s), Append(cur, Head(s)), acc)

split(s) == splitFrom(s, <<>>, <<>>)

startsWith(s, prefix) ==
    /\ Len(s) >= Len(prefix)
    /\ SubSeq(s, 1, Len(prefix)) = prefix

HttpPrefix == <<"h", "t", "t", "p", ":", "/", "/">>

HttpsPrefix == <<"h", "t", "t", "p", "s", ":", "/", "/">>

\* The test for https:// alone.
isUrlHttpsOnly(line) == startsWith(line, HttpsPrefix)

\* line.startsWith("http://") || line.startsWith("https://")
isUrl(line) == startsWith(line, HttpPrefix) \/ startsWith(line, HttpsPrefix)

\* .filter(Boolean): the empty string is the only falsy string.
filterBoolean(ls) == SelectSeq(ls, LAMBDA l : l # <<>>)

\* text.split("\n").map((line) => line.trim()).filter(Boolean)
linesOf(text) ==
    LET pieces == split(text)
    IN  filterBoolean([p \in 1..Len(pieces) |-> trim(pieces[p])])

\* One <div> of the result: plain text, or a link whose href is the line.
lineElement(line) ==
    IF isUrl(line)
    THEN [tag |-> "a", text |-> line, href |-> Some(line)]
    ELSE [tag |-> "div", text |-> line, href |-> Null]

\* The element returned: the dash placeholder, or one element per line.
renderComparison(c) ==
    LET text == trim(IF c = Null THEN <<>> ELSE c[1])    \* (comparison || "")
    IN  IF text = <<>>
        THEN [dash |-> TRUE, lines |-> <<>>]
        ELSE [dash |-> FALSE,
              lines |-> [p \in 1..Len(linesOf(text)) |->
                            lineElement(linesOf(text)[p])]]

\* The lines a comparison string is put together from.
LineInputs ==
    { <<>>,
      <<" ">>,
      <<"x">>,
      <<" ", " ", "x", " ", "y", " ">>,
      <<"h", "t", "t", "p", ":", "/", "/", "a">>,
      <<"h", "t", "t", "p", "s", ":", "/", "/", "a">>,
      <<"\t", "h", "t", "t", "p", "s", ":", "/", "/", "a", " ">>,
      <<"h", "t", "t", "p", ":", "/", "a">>,
      <<"x", "h", "t", "t", "p", ":", "/", "/">>,
      <<"H", "T", "T", "P", ":", "/", "/", "a">>,
      <<"x", "\r">> }

RECURSIVE joinLines(_)
joinLines(ls) ==
    IF ls = <<>> THEN <<>>
    ELSE IF Len(ls) = 1 THEN ls[1]
    ELSE ls[1] \o <<"\n">> \o joinLines(Tail(ls))

ComparisonInputs ==
    {Null} \cup
    { Some(joinLines(ls)) :
        ls \in UNION { [1..n -> LineInputs] : n \in 0..MaxLines } }

CellIdle ==
    /\ comparison = Null
    /\ status = ""
    /\ rendered = Null
    /\ style = Null

InitCells ==
    /\ comparison \in ComparisonInputs
    /\ status \in StatusInputs
    /\ rendered = Null
    /\ style = Null

\* {renderComparison(row.comparison)}
CallRenderComparison ==
    /\ rendered = Null
    /\ rendered' = Some(renderComparison(comparison))
    /\ UNCHANGED <<comparison, status, style, flattenVars, themeVars>>

\* style={getStatusStyle(row.best_status)}
CallGetStatusStyle ==
    /\ style = Null
    /\ style' = Some(getStatusStyle(status))
    /\ UNCHANGED <<comparison, status, rendered, flattenVars, themeVars>>

----------------------------------------------------------------------------
(* The themed page: theme and mounted are component state, the preference  *)
(* is localStorage's "theme" item.                                         *)

StoredInputs ==
    {Null, Some("light"), Some("dark"), Some(""), Some("auto"), Some("Light"),
     Some("DARK"), Some("system"), Some("dark "), Some("null")}

ThemeIdle ==
    /\ storage = Null
    /\ theme = "dark"
    /\ mounted = FALSE
    /\ view = Null
    /\ toggles = 0
    /\ loads = 0

\* useState("dark"), useState(false); the first render returns null.
InitTheme ==
    /\ storage \in StoredInputs
    /\ theme = "dark"
    /\ mounted = FALSE
    /\ view = Null
    /\ toggles = 0
    /\ loads = 1

\* useEffect(() => { ... }, []): runs once, after the first render.
StartupEffect ==
    /\ ~mounted
    /\ theme' = IF storage \in {Some("light"), Some("dark")}
                THEN storage[1] ELSE theme
    /\ mounted' = TRUE
    /\ UNCHANGED <<storage, view, toggles, loads, flattenVars, cellVars>>

\* A render without the if (!mounted) return null guard: the page and its
\* toggle button are drawn before the effect has run.
RerenderUnguarded ==
    /\ view = Null
    /\ view' = Some(theme)
    /\ UNCHANGED <<storage, theme, mounted, toggles, loads, flattenVars,
                   cellVars>>

\* The render after the effect's state updates: if (!mounted) return null
\* no longer returns, the page and its toggle button are drawn.
Rerender ==
    /\ mounted
    /\ view = Null
    /\ view' = Some(theme)
    /\ UNCHANGED <<storage, theme, mounted, toggles, loads, flattenVars,
                   cellVars>>

\* A toggle that updates the state and forgets the storage.
ToggleThemeUnsaved ==
    /\ view # Null
    /\ toggles < MaxToggles
    /\ theme' = IF theme = "dark" THEN "light" ELSE "dark"
    /\ view' = Some(theme')
    /\ toggles' = toggles + 1
    /\ UNCHANGED <<storage, mounted, loads, flattenVars, cellVars>>

\* onClick={toggleTheme}: the button exists once the page is drawn.  The
\* updater flips the state and saves the new value; the page is redrawn.
ToggleTheme ==
    /\ view # Null
    /\ toggles < MaxToggles
    /\ theme' = IF theme = "dark" THEN "light" ELSE "dark"
    /\ storage' = Some(theme')
    /\ view' = Some(theme')
    /\ toggles' = toggles + 1
    /\ UNCHANGED <<mounted, loads, flattenVars, cellVars>>

\* The page is loaded again: the component state starts over, localStorage
\* stays.
Reload ==
    /\ loads < MaxLoads
    /\ theme' = "dark"
    /\ mounted' = FALSE
    /\ view' = Null
    /\ toggles' = 0
    /\ loads' = loads + 1
    /\ UNCHANGED <<storage, flattenVars, cellVars>>

----------------------------------------------------------------------------
(* Specifications. *)

Init == InitFlatten /\ CellIdle /\ ThemeIdle

InitCellsOnly == FlattenIdle /\ InitCells /\ ThemeIdle

InitThemeOnly == FlattenIdle /\ CellIdle /\ InitTheme

Next == Render

Spec == Init /\ [][Next]_vars

NextCells == CallRenderComparison \/ CallGetStatusStyle

SpecCells == InitCellsOnly /\ [][NextCells]_vars

NextTheme == StartupEffect \/ Rerender \/ ToggleTheme \/ Reload

SpecTheme == InitThemeOnly /\ [][NextTheme]_vars


----------------------------------------------------------------------------
(* What the claims are stated in: the rows an entry is to yield and the   *)
(* place of its block, defined from the data alone.                        *)

Returned == calls > 0

\* max(len(best_releases), len(alt_releases), 1)
RowsOf(e) ==
    CHOOSE n \in {Len(e.best_releases), Len(e.alt_releases), 1} :
        \A m \in {Len(e.best_releases), Len(e.alt_releases), 1} : n >= m

\* The rows of the first k entries together.
RECURSIVE RowsUpTo(_, _)
RowsUpTo(d, k) == IF k = 0 THEN 0 ELSE RowsUpTo(d, k - 1) + RowsOf(d[k])

\* The 1-based place in the output of row i (0-based) of entry k.
PlaceOf(d, k, i) == RowsUpTo(d, k - 1) + i + 1

\* The places of the rows of entry k.
BlockOf(d, k) == (RowsUpTo(d, k - 1) + 1)..RowsUpTo(d, k)

BothEmpty(e) == e.best_releases = <<>> /\ e.alt_releases = <<>>

\* C1: flattenToRows returns as many rows as the entries' max(len(best),
\* len(alt), 1) add up to: one entry yields that many rows, an entry with
\* both lists empty yields one row, the empty input yields no row.
C1_RowCount ==
    Returned =>
        /\ Len(rows) = RowsUpTo(data, Len(data))
        /\ (Len(data) = 1 => Len(rows) = RowsOf(data[1]))
        /\ (Len(data) = 1 /\ BothEmpty(data[1]) => Len(rows) = 1)
        /\ (data = <<>> => rows = <<>>)

\* An entry without releases before one with two best and one alt release.
C1_Witness ==
    /\ Returned
    /\ Len(data) = 2
    /\ BothEmpty(data[1])
    /\ Len(data[2].best_releases) = 2
    /\ Len(data[2].alt_releases) = 1
    /\ Len(rows) = 3

\* C2: row i of an entry carries the name and status of best_releases[i]
\* when the list has one, else two empty strings, and the same for
\* alt_releases[i]; each list is padded on its own.
C2_Padding ==
    Returned =>
        \A k \in 1..Len(data) : \A i \in 0..(RowsOf(data[k]) - 1) :
            LET e == data[k]
                q == PlaceOf(data, k, i)
            IN  /\ q \in DOMAIN rows
                /\ IF i < Len(e.best_releases)
                   THEN /\ rows[q].best_name = e.best_releases[i + 1].name
                        /\ rows[q].best_status = e.best_releases[i + 1].status
                   ELSE /\ rows[q].best_name = ""
                        /\ rows[q].best_status = ""
                /\ IF i < Len(e.alt_releases)
                   THEN /\ rows[q].alt_name = e.alt_releases[i + 1].name
                        /\ rows[q].alt_status = e.alt_releases[i + 1].status
                   ELSE /\ rows[q].alt_name = ""
                        /\ rows[q].alt_status = ""

\* A shorter, non-empty alt list whose last release is not empty, padded
\* in the entry's last row, and the same for a shorter best list.
C2_Witness ==
    /\ Returned
    /\ \E k \in 1..Len(data) :
        LET e == data[k]
            n == Len(e.alt_releases)
            q == PlaceOf(data, k, RowsOf(e) - 1)
        IN  /\ n >= 1
            /\ Len(e.best_releases) > n
            /\ e.alt_releases[n].name # ""
            /\ e.alt_releases[n].status # ""
            /\ rows[q].alt_name = ""
            /\ rows[q].alt_status = ""
            /\ rows[q].best_name # ""
    /\ \E k \in 1..Len(data) :
        LET e == data[k]
            q == PlaceOf(data, k, RowsOf(e) - 1)
        IN  /\ Len(e.best_releases) < Len(e.alt_releases)
            /\ rows[q].best_name = ""
            /\ rows[q].best_status = ""
            /\ rows[q].alt_name # ""

\* C3: the output is the entries' blocks one after the other in input
\* order, and every row of entry k's block carries entry k's title, alt
\* title, year, format, notes and comparison.
C3_BlocksInOrder ==
    Returned =>
        /\ Len(rows) = RowsUpTo(data, Len(data))
        /\ \A k \in 1..Len(data) : \A q \in BlockOf(data, k) :
            /\ q \in DOMAIN rows
            /\ rows[q].title = data[k].title
            /\ rows[q].alt_title = data[k].alt_title
            /\ rows[q].year = data[k].year
            /\ rows[q].format = data[k].format
            /\ rows[q].notes = data[k].notes
            /\ rows[q].comparison = data[k].comparison

\* Two entries with different details and two rows each.
C3_Witness ==
    /\ Returned
    /\ Len(data) = 2
    /\ data[1].title # data[2].title
    /\ data[1].notes # data[2].notes
    /\ RowsOf(data[1]) = 2
    /\ RowsOf(data[2]) = 2
    /\ Len(rows) = 4
    /\ rows[2].notes = data[1].notes
    /\ rows[3].notes = data[2].notes

\* C4: every entry has exactly one row with isFirstForTitle = true, whose
\* rowSpan is the number of the entry's rows; two adjacent entries with the
\* same title make two groups.
C4_OneGroupPerEntry ==
    Returned =>
        \A k \in 1..Len(data) :
            LET firsts == { q \in BlockOf(data, k) \cap DOMAIN rows :
                              rows[q].isFirstForTitle }
            IN  /\ Cardinality(firsts) = 1
                /\ \A q \in firsts : rows[q].rowSpan = RowsOf(data[k])

\* The rowSpan of the rows with isFirstForTitle = true among the first n.
RECURSIVE SpanSum(_, _)
SpanSum(rs, n) ==
    IF n = 0 THEN 0
    ELSE SpanSum(rs, n - 1) + (IF rs[n].isFirstForTitle THEN rs[n].rowSpan ELSE 0)

\* The first-of-group rows whose span reaches place q.
Covering(rs, q) ==
    { p \in DOMAIN rs : rs[p].isFirstForTitle /\ p <= q /\ q < p + rs[p].rowSpan }

\* C5: the rowSpan of the rows with isFirstForTitle = true add up to the
\* number of rows, and every row lies in the span of exactly one of them.
C5_SpansPartition ==
    Returned =>
        /\ SpanSum(rows, Len(rows)) = Len(rows)
        /\ \A q \in DOMAIN rows : Cardinality(Covering(rows, q)) = 1
        /\ \A p \in DOMAIN rows :
            rows[p].isFirstForTitle => p + rows[p].rowSpan <= Len(rows) + 1

\* Two groups of two rows: the spans are 2, 0, 2, 0.
C5_Witness ==
    /\ Returned
    /\ Len(rows) = 4
    /\ rows[1].isFirstForTitle /\ rows[1].rowSpan = 2
    /\ ~rows[2].isFirstForTitle /\ rows[2].rowSpan = 0
    /\ rows[3].isFirstForTitle /\ rows[3].rowSpan = 2
    /\ ~rows[4].isFirstForTitle /\ rows[4].rowSpan = 0

\* C6: in every returned row rowSpan is a natural number, and it is not 0
\* exactly when isFirstForTitle is true.
C6_SpanIffFirst ==
    Returned =>
        \A p \in DOMAIN rows :
            /\ rows[p].rowSpan \in Nat
            /\ (rows[p].rowSpan # 0) <=> rows[p].isFirstForTitle

\* Two adjacent entries with one title: the second entry's first row, pushed
\* with isFirstForTitle = true, is returned with false and rowSpan 0.
C6_Witness ==
    /\ Returned
    /\ Len(data) = 2
    /\ data[1].title = data[2].title
    /\ LET q == PlaceOf(data, 2, 0)
       IN  /\ q \in DOMAIN rows
           /\ ~rows[q].isFirstForTitle
           /\ rows[q].rowSpan = 0
    /\ rows[1].isFirstForTitle
    /\ rows[1].rowSpan = Len(rows)

----------------------------------------------------------------------------
(* The theme preference. *)

ThemeValues == {"dark", "light"}

\* The theme the stored item stands for when the page starts.
StartupTheme(item) ==
    IF item \in {Some(t) : t \in ThemeValues} THEN item[1] ELSE "dark"

\* C7: after startup the theme is the stored "light" or "dark", and "dark"
\* with no or another stored value; startup does not write to the storage;
\* a toggle flips the theme and stores the new value, so after any toggles
\* the stored value is the theme.
C7_ThemeMachine ==
    /\ [](theme \in ThemeValues)
    /\ [](mounted /\ toggles = 0 => theme = StartupTheme(storage))
    /\ [](mounted /\ toggles > 0 => storage = Some(theme))
    /\ [][~mounted => storage' = storage]_vars
    /\ [][toggles' = toggles + 1 =>
            /\ theme' # theme
            /\ storage' = Some(theme')]_vars

\* The second load of a page whose stored theme a toggle has set: startup
\* has restored "light" and three toggles have led to "dark".
C7_Witness ==
    /\ loads = 2
    /\ mounted
    /\ toggles = 3
    /\ theme = "dark"
    /\ storage = Some("dark")
    /\ view = Some("dark")

----------------------------------------------------------------------------
(* The status colours and the comparison lines. *)

StyleTable ==
    [s \in {"broken", "incomplete", "unmuxed", "not_nyaa"} |->
        [backgroundColor |->
            CASE s = "broken"     -> "#CBCBCB"
              [] s = "incomplete" -> "#D37ABC"
              [] s = "unmuxed"    -> "#FFE89A"
              [] s = "not_nyaa"   -> "#639AFF",
         color |-> "#020617"]]

\* C8: getStatusStyle returns the gray, pink, yellow and blue pair for
\* "broken", "incomplete", "unmuxed" and "not_nyaa", four different
\* backgrounds, and the empty style for "" and every other string.
C8_StatusStyle ==
    /\ style # Null =>
        style[1] = IF status \in DOMAIN StyleTable
                   THEN StyleTable[status] ELSE EmptyStyle
    /\ Cardinality({ StyleTable[s].backgroundColor : s \in DOMAIN StyleTable }) = 4

\* An unknown status that differs from a known one by its case only.
C8_Witness ==
    /\ status = "Broken"
    /\ style = Some(EmptyStyle)

\* The comparison string as a sequence of characters: (comparison || "").
TextOf(c) == IF c = Null THEN <<>> ELSE c[1]

\* The places before which an input line starts: 0 and every newline.
LineBreaks(t) == {0} \cup { p \in DOMAIN t : t[p] = "\n" }

\* The place after the line that starts behind b: the next newline or the end.
LineEnd(t, b) ==
    CHOOSE e \in (b + 1)..(Len(t) + 1) :
        /\ e = Len(t) + 1 \/ t[e] = "\n"
        /\ \A p \in (b + 1)..(e - 1) : t[p] # "\n"

\* The places of the line behind b that hold no white space.
Inked(t, b) == { p \in (b + 1)..(LineEnd(t, b) - 1) : t[p] \notin WhiteSpace }

\* The lines that are not empty after trimming, by their starts.
KeptBreaks(t) == { b \in LineBreaks(t) : Inked(t, b) # {} }

\* The n-th of them in input order.
NthKept(t, n) ==
    CHOOSE b \in KeptBreaks(t) :
        Cardinality({ a \in KeptBreaks(t) : a < b }) = n - 1

\* The line behind b without the white space around it.
Trimmed(t, b) ==
    LET first == CHOOSE p \in Inked(t, b) : \A q \in Inked(t, b) : p <= q
        last  == CHOOSE p \in Inked(t, b) : \A q \in Inked(t, b) : p >= q
    IN  [p \in 1..(last - first + 1) |-> t[first + p - 1]]

IsPrefix(pre, t) ==
    /\ Len(pre) <= Len(t)
    /\ \A p \in DOMAIN pre : t[p] = pre[p]

\* C9: renderComparison yields one line per input line that is not empty
\* after trimming, in input order and trimmed; a line is a link exactly
\* when its trimmed text starts with http:// or https://.
C9_ComparisonLines ==
    rendered # Null =>
        LET t   == TextOf(comparison)
            out == rendered[1].lines
        IN  /\ Len(out) = Cardinality(KeptBreaks(t))
            /\ \A n \in DOMAIN out :
                /\ n <= Cardinality(KeptBreaks(t))
                /\ out[n].text = Trimmed(t, NthKept(t, n))
                /\ (out[n].tag = "a") <=>
                      \/ IsPrefix(<<"h", "t", "t", "p", ":", "/", "/">>, out[n].text)
                      \/ IsPrefix(<<"h", "t", "t", "p", "s", ":", "/", "/">>, out[n].text)
                /\ out[n].tag \in {"a", "div"}

\* A blank line, then a link with white space around it: one line, a link.
C9_Witness ==
    /\ comparison = Some(<<" ", "\n", "\t", "h", "t", "t", "p", "s", ":", "/",
                           "/", "a", " ">>)
    /\ rendered # Null
    /\ ~rendered[1].dash
    /\ Len(rendered[1].lines) = 1
    /\ rendered[1].lines[1].tag = "a"
    /\ rendered[1].lines[1].text = <<"h", "t", "t", "p", "s", ":", "/", "/", "a">>


----------------------------------------------------------------------------
(* The runs of equal titles in the returned rows. *)

\* Place p starts a maximal run of rows with one title.
RunStart(rs, p) == p = 1 \/ rs[p - 1].title # rs[p].title

\* The last place of the run of equal titles that holds place p.
RunEnd(rs, p) ==
    CHOOSE e \in p..Len(rs) :
        /\ \A q \in p..e : rs[q].title = rs[p].title
        /\ e = Len(rs) \/ rs[e + 1].title # rs[p].title

\* C11: in the returned rows the first row of every maximal run of equal
\* titles has isFirstForTitle = true and the run's length as rowSpan, and
\* every other row of the run has rowSpan = 0 and isFirstForTitle = false;
\* so for the last run and for the empty title.
C11_RunsOfTitles ==
    Returned =>
        \A p \in DOMAIN rows :
            IF RunStart(rows, p)
            THEN /\ rows[p].isFirstForTitle
                 /\ rows[p].rowSpan = RunEnd(rows, p) - p + 1
            ELSE /\ ~rows[p].isFirstForTitle
                 /\ rows[p].rowSpan = 0

\* A run titled "A", then a last run of two or more rows with the empty
\* title, made of one entry's rows.
C11_Witness ==
    /\ Returned
    /\ Len(data) = 2
    /\ data[1].title = "A"
    /\ data[2].title = ""
    /\ RowsOf(data[2]) >= 2
    /\ LET q == PlaceOf(data, 2, 0)
       IN  /\ q \in DOMAIN rows
           /\ rows[q].title = ""
           /\ rows[q].isFirstForTitle
           /\ rows[q].rowSpan = Len(rows) - q + 1
           /\ rows[q].rowSpan >= 2
           /\ rows[Len(rows)].rowSpan = 0


----------------------------------------------------------------------------
(* The rendered table. *)

MergedCols == {"title", "alt_title", "comparison", "notes"}

\* The cells of column col in the <tr> at place p, by their index.
CellsOf(tb, p, col) == { c \in DOMAIN tb[p] : tb[p][c].col = col }

\* The cells of column col whose span reaches the body row q: a cell of
\* the <tr> at place p covers the body rows p .. p + rowSpan - 1.
CellsOver(tb, q, col) ==
    UNION { { <<p, c>> : c \in { x \in CellsOf(tb, p, col) :
                                   q < p + tb[p][x].rowSpan } } : p \in 1..q }

\* C12: the table has one body row per returned row; the title, alt title,
\* comparison and notes cells are on the rows with isFirstForTitle = true
\* and rowSpan > 0 and nowhere else, with the row's rowSpan; every body row
\* is covered by exactly one cell of each merged column, and no merged cell
\* reaches past the last body row.
C12_MergedCells ==
    Returned =>
        /\ Len(tbody) = Len(rows)
        /\ \A p \in DOMAIN tbody : \A col \in MergedCols :
            /\ Cardinality(CellsOf(tbody, p, col)) =
                  IF p \in DOMAIN rows /\ rows[p].isFirstForTitle
                     /\ rows[p].rowSpan > 0
                  THEN 1 ELSE 0
            /\ \A c \in CellsOf(tbody, p, col) :
                /\ tbody[p][c].rowSpan = rows[p].rowSpan
                /\ p + tbody[p][c].rowSpan - 1 <= Len(tbody)
        /\ \A q \in DOMAIN tbody : \A col \in MergedCols :
            Cardinality(CellsOver(tbody, q, col)) = 1
        /\ \A p \in DOMAIN tbody : \A col \in {"best", "alt"} :
            /\ Cardinality(CellsOf(tbody, p, col)) = 1
            /\ \A c \in CellsOf(tbody, p, col) : tbody[p][c].rowSpan = 1

\* Two entries with one title and four rows together: the first <tr> holds
\* six cells, its title cell spans all four body rows, and the other <tr>,
\* the second entry's first among them, hold the two release cells only.
C12_Witness ==
    /\ Returned
    /\ Len(data) = 2
    /\ Len(tbody) = 4
    /\ PlaceOf(data, 2, 0) = 3
    /\ Len(tbody[1]) = 6
    /\ tbody[1][1].col = "title"
    /\ tbody[1][1].rowSpan = 4
    /\ tbody[1][6].col = "notes"
    /\ tbody[1][6].rowSpan = 4
    /\ \A p \in 2..4 : Len(tbody[p]) = 2


----------------------------------------------------------------------------
(* Startup and the toggle button. *)

Flip(t) == IF t = "dark" THEN "light" ELSE "dark"

\* C13: the themed page shows nothing until the startup effect has set
\* mounted, so no toggle happens before it; the first toggle after a load
\* flips the theme loaded from the storage, not the default, and stores
\* that: a stored "light" is followed by "dark", never by the "light" that
\* a flip of the default "dark" would give.
C13_NoToggleBeforeStartup ==
    /\ [](~mounted => view = Null /\ toggles = 0)
    /\ [][toggles' = toggles + 1 => mounted /\ view # Null]_vars
    /\ [][toggles = 0 /\ toggles' = 1 =>
            /\ theme' = Flip(StartupTheme(storage))
            /\ storage' = Some(Flip(StartupTheme(storage)))]_vars
    /\ [][storage = Some("light") /\ storage' # storage =>
            /\ theme = "light"
            /\ storage' = Some("dark")]_vars

\* The first toggle of the first load has led to "dark" and stored it: the
\* storage held "light" at startup.
C13_Witness ==
    /\ loads = 1
    /\ mounted
    /\ toggles = 1
    /\ theme = "dark"
    /\ storage = Some("dark")
    /\ view = Some("dark")

============================================================================
